---- MODULE Spec2Model ----
(***************************************************************************)
(* Model of analyse.py: get_user_contributions, the sequential pipeline    *)
(* repositories -> pull requests -> commits / reviews -> top-3 ranking.    *)
(* Every requests.get is an input of the step that issues it: either a     *)
(* RequestException (ok = FALSE) or a parsed JSON value (ok = TRUE).       *)
(***************************************************************************)
EXTENDS Integers, Sequences, FiniteSets, TLC

VARIABLES
    pc,                     \* position in get_user_contributions
    username, github_token, \* resolved inputs (lines 16-18); "" is unset
    start_date, end_date,   \* <<>> is None, <<d>> is the date string of day d
    page, all_repos,        \* enumeration loop (lines 46-60)
    ri, pulls, pj,          \* for repo in all_repos / for pull in pulls
    commits, ck,            \* for commit in commits
    reviews,                \* the review list last fetched (line 120)
    pull_requests_reviewed, valid_comments, lines_added, lines_deleted,
    repo_contributions,     \* dict in insertion order: sequence of <<key, count>>
    outcome, raised, results,
    pulls_log,              \* the answer to each pull-list fetch, in order
    last,                   \* the requests.get issued by the last step, if any
    issued                  \* the requests issued so far: <<kind, repository index>>

vars == <<pc, username, github_token, start_date, end_date, page, all_repos,
          ri, pulls, pj, commits, ck, reviews, pull_requests_reviewed,
          valid_comments, lines_added, lines_deleted, repo_contributions,
          outcome, raised, results, pulls_log, last, issued>>

\* ------------------------------------------------------------------ bounds
MaxPages == 2       \* non-empty pages of the repository enumeration
MaxPulls == 2       \* pull requests in one list
MaxReviews == 2     \* reviews of one pull request

\* ------------------------------------------------------------- JSON values
Null == "null"          \* a key present with JSON null
Absent == "absent"      \* a key that is not in the object
Me == "me"              \* the target username
Other == "other"        \* any other login

SeqsUpTo(S, n) == UNION {[1..k -> S] : k \in 0..n}

Failure == [ok |-> FALSE, json |-> <<>>]
Success(v) == [ok |-> TRUE, json |-> v]
Responses(S) == {Failure} \cup {Success(v) : v \in S}

NoRequest == [kind |-> "none", ok |-> TRUE]
Request(kind, resp) == [kind |-> kind, ok |-> resp.ok]

MinOf(a, b) == IF a < b THEN a ELSE b

\* ---------------------------------------------------------- pure functions
\* datetime.strptime(s, "%Y-%m-%d"): midnight of the day
ParseDate(d) == <<d[1], 0>>

\* datetime.strptime(s, "%Y-%m-%dT%H:%M:%SZ"): day and second of the day
ParseTimestamp(t) == <<t[1], t[2]>>

\* datetime < datetime
Before(a, b) == a[1] < b[1] \/ (a[1] = b[1] /\ a[2] < b[2])

\* the date test of line 85
OutOfRange(created, s, e) ==
    \/ (s # <<>> /\ Before(ParseTimestamp(created), ParseDate(s)))
    \/ (e # <<>> /\ Before(ParseDate(e), ParseTimestamp(created)))

\* str.replace("comments", "reviews") on a locator held as its path segments
ReplaceComments(url) ==
    [i \in 1..Len(url) |-> IF url[i] = "comments" THEN "reviews" ELSE url[i]]

\* (ValidBody_AtLeast: the threshold taken as "at least 10")
ValidBody_AtLeast(body) == body # Null /\ body # "" /\ Len(body) >= 10

\* review.get('body') and len(review.get('body')) > 10
ValidBody(body) == body # Null /\ body # "" /\ Len(body) > 10

\* pull.get('user', {}).get('login') == username, for a user that is not null
LoginIs(user, name) == user # Absent /\ user = name

\* dict operations on repo_contributions
HasKey(d, k) == \E i \in 1..Len(d) : d[i][1] = k
Lookup(d, k) == LET i == CHOOSE i \in 1..Len(d) : d[i][1] = k IN d[i][2]
Keys(d) == {d[i][1] : i \in 1..Len(d)}

\* repo_contributions[k] = 0 (line 67): a present key keeps its position
SetZero(d, k) ==
    IF HasKey(d, k)
    THEN [i \in 1..Len(d) |-> IF d[i][1] = k THEN <<k, 0>> ELSE d[i]]
    ELSE Append(d, <<k, 0>>)

\* (Increment_Reset: the count is set to 1 instead of increased)
Increment_Reset(d, k) ==
    [i \in 1..Len(d) |-> IF d[i][1] = k THEN <<k, 1>> ELSE d[i]]

\* repo_contributions[k] += 1 (line 90)
Increment(d, k) ==
    [i \in 1..Len(d) |-> IF d[i][1] = k THEN <<k, d[i][2] + 1>> ELSE d[i]]

\* (InsertDesc_Unstable: x goes before the items whose count equals its own)
RECURSIVE InsertDesc_Unstable(_, _)
InsertDesc_Unstable(x, s) ==
    IF s = <<>> THEN <<x>>
    ELSE IF Head(s)[2] > x[2] THEN <<Head(s)>> \o InsertDesc_Unstable(x, Tail(s))
    ELSE <<x>> \o s

\* one insertion of a stable descending sort: x goes after every item whose
\* count is at least its own
RECURSIVE InsertDesc(_, _)
InsertDesc(x, s) ==
    IF s = <<>> THEN <<x>>
    ELSE IF Head(s)[2] >= x[2] THEN <<Head(s)>> \o InsertDesc(x, Tail(s))
    ELSE <<x>> \o s

\* sorted(items, key=count, reverse=True): stable, equal counts keep their order
RECURSIVE SortedDesc(_)
SortedDesc(s) ==
    IF s = <<>> THEN <<>>
    ELSE InsertDesc(s[Len(s)], SortedDesc(SubSeq(s, 1, Len(s) - 1)))

\* sorted(...)[:3]
TopRepos(d) == SubSeq(SortedDesc(d), 1, MinOf(3, Len(d)))

\* the review loop, lines 126-130, from counters c = <<reviewed, valid>>;
\* a review whose user is null raises at line 127 and ends the loop there
RECURSIVE CountReviews(_, _, _)
CountReviews(rs, name, c) ==
    IF rs = <<>> THEN [reviewed |-> c[1], valid |-> c[2], raised |-> FALSE]
    ELSE IF Head(rs).user = Null
         THEN [reviewed |-> c[1], valid |-> c[2], raised |-> TRUE]
    ELSE IF LoginIs(Head(rs).user, name)
         THEN CountReviews(Tail(rs), name,
                  <<c[1] + 1, IF ValidBody(Head(rs).body) THEN c[2] + 1 ELSE c[2]>>)
    ELSE CountReviews(Tail(rs), name, c)

\* ------------------------------------------------------------------ state
NoResults == [user_name |-> "", pull_requests_reviewed |-> 0, valid_comments |-> 0,
              lines_added |-> 0, lines_deleted |-> 0, lines_modified |-> 0,
              top_repositories |-> <<>>, start_date |-> <<>>, end_date |-> <<>>]

\* lines 13-47 before the first statement runs; W is the set of date windows
\* and U the set of (username, token) pairs the caller may pass
InitWith(U, W) ==
    /\ pc = "start"
    /\ \E u \in U : username = u[1] /\ github_token = u[2]
    /\ \E w \in W : start_date = w[1] /\ end_date = w[2]
    /\ page = 1 /\ all_repos = <<>>
    /\ ri = 1 /\ pulls = <<>> /\ pj = 1 /\ commits = <<>> /\ ck = 1
    /\ reviews = <<>>
    /\ pull_requests_reviewed = 0 /\ valid_comments = 0
    /\ lines_added = 0 /\ lines_deleted = 0
    /\ repo_contributions = <<>>
    /\ pulls_log = <<>>
    /\ outcome = "running" /\ raised = "" /\ results = NoResults
    /\ last = NoRequest /\ issued = {}

counters == <<pull_requests_reviewed, valid_comments, lines_added, lines_deleted>>
loops == <<ri, pulls, pj, commits, ck, reviews>>
inputs == <<username, github_token, start_date, end_date>>

\* an exception no handler catches leaves the function
Raise(e) ==
    /\ pc' = "returned" /\ outcome' = "Exception" /\ raised' = e
    /\ UNCHANGED results

\* return None
ReturnNone ==
    /\ pc' = "returned" /\ outcome' = "None"
    /\ UNCHANGED <<raised, results>>

Goto(l) == pc' = l /\ UNCHANGED <<outcome, raised, results>>

\* a requests.get of the given kind, made for the repository at index i of
\* all_repos (0 for the enumeration and the user profile)
Get(kind, i, resp) ==
    last' = Request(kind, resp) /\ issued' = issued \cup {<<kind, i>>}
NoGet == last' = NoRequest /\ UNCHANGED issued

\* lines 26-28
CheckInputs ==
    /\ pc = "start"
    /\ IF username = "" \/ github_token = "" THEN ReturnNone ELSE Goto("list_repos")
    /\ NoGet
    /\ UNCHANGED <<inputs, page, all_repos, loops, counters, repo_contributions,
                   pulls_log>>

\* lines 58-60: a failed page ends the run without a result
\* (EnumerationFailure_Break: the loop is left and the pages read so far are used)
EnumerationFailure_Break == Goto("repos") /\ UNCHANGED <<page, all_repos>>
EnumerationFailure == ReturnNone /\ UNCHANGED <<page, all_repos>>

\* lines 49-60: one pass of the while loop
ListRepos(Pages, maxPages) ==
    /\ pc = "list_repos"
    /\ \E resp \in Responses(IF page > maxPages THEN {<<>>} ELSE Pages \cup {<<>>}) :
        /\ Get("repos", 0, resp)
        /\ IF ~resp.ok
           THEN EnumerationFailure
           ELSE IF resp.json = <<>>
           THEN Goto("repos") /\ UNCHANGED <<page, all_repos>>
           ELSE /\ Goto("list_repos")
                /\ all_repos' = all_repos \o resp.json
                /\ page' = page + 1
    /\ UNCHANGED <<inputs, loops, counters, repo_contributions, pulls_log>>

\* lines 74-76: a failed pull-list fetch goes on to the next repository
\* (SkipRepo_Abort: the failure ends the run as a failed page does)
SkipRepo_Abort == ReturnNone /\ UNCHANGED <<ri, pulls, pj>>
SkipRepo == Goto("repos") /\ ri' = ri + 1 /\ UNCHANGED <<pulls, pj>>

\* lines 64-78: the head of the repository loop and the pull-list fetch
NextRepo(PullLists) ==
    /\ pc = "repos"
    /\ IF ri > Len(all_repos)
       THEN /\ Goto("finalize") /\ NoGet
            /\ UNCHANGED <<ri, pulls, pj, repo_contributions, pulls_log>>
       ELSE IF all_repos[ri].full_name = Absent
       THEN /\ Raise("KeyError") /\ NoGet
            /\ UNCHANGED <<ri, pulls, pj, repo_contributions, pulls_log>>
       ELSE \E resp \in Responses(PullLists) :
            /\ Get("pulls", ri, resp)
            /\ repo_contributions' = SetZero(repo_contributions, all_repos[ri].full_name)
            /\ pulls_log' = Append(pulls_log, resp)
            /\ IF ~resp.ok
               THEN SkipRepo
               ELSE Goto("pulls") /\ pulls' = resp.json /\ pj' = 1 /\ UNCHANGED ri
    /\ UNCHANGED <<inputs, page, all_repos, commits, ck, reviews, counters>>

\* lines 80-100: the head of the pull loop, the date filter, the author test
\* and the commit-list fetch
NextPull(CommitLists) ==
    /\ pc = "pulls"
    /\ IF pj > Len(pulls)
       THEN /\ Goto("repos") /\ ri' = ri + 1 /\ NoGet
            /\ UNCHANGED <<pj, commits, ck, repo_contributions>>
       ELSE LET pull == pulls[pj] IN
            IF pull.created_at = <<>>
            THEN /\ Raise("TypeError") /\ NoGet
                 /\ UNCHANGED <<ri, pj, commits, ck, repo_contributions>>
            ELSE IF OutOfRange(pull.created_at, start_date, end_date)
            THEN /\ Goto("pulls") /\ pj' = pj + 1 /\ NoGet
                 /\ UNCHANGED <<ri, commits, ck, repo_contributions>>
            ELSE IF pull.user = Null
            THEN /\ Raise("AttributeError") /\ NoGet
                 /\ UNCHANGED <<ri, pj, commits, ck, repo_contributions>>
            ELSE IF LoginIs(pull.user, username)
            THEN \E resp \in Responses(CommitLists) :
                 /\ Get("commits", ri, resp)
                 /\ repo_contributions' =
                        Increment(repo_contributions, all_repos[ri].full_name)
                 /\ IF ~resp.ok
                    THEN /\ Goto("pulls") /\ pj' = pj + 1
                         /\ UNCHANGED <<commits, ck>>
                    ELSE /\ Goto("commits") /\ commits' = resp.json /\ ck' = 1
                         /\ UNCHANGED pj
                 /\ UNCHANGED ri
            ELSE /\ Goto("reviews") /\ NoGet
                 /\ UNCHANGED <<ri, pj, commits, ck, repo_contributions>>
    /\ UNCHANGED <<inputs, page, all_repos, pulls, reviews, counters, pulls_log>>

\* lines 101-114: the head of the commit loop and the commit-detail fetch
NextCommit(Details) ==
    /\ pc = "commits"
    /\ IF ck > Len(commits)
       THEN /\ Goto("reviews") /\ NoGet
            /\ UNCHANGED <<ck, lines_added, lines_deleted>>
       ELSE \E resp \in Responses(Details) :
            /\ Get("commit", ri, resp)
            /\ IF ~resp.ok
               THEN /\ Goto("commits") /\ ck' = ck + 1
                    /\ UNCHANGED <<lines_added, lines_deleted>>
               ELSE IF resp.json.stats = Null
               THEN /\ Raise("AttributeError")
                    /\ UNCHANGED <<ck, lines_added, lines_deleted>>
               ELSE /\ Goto("commits") /\ ck' = ck + 1
                    /\ lines_added' = lines_added +
                         (IF resp.json.stats = Absent THEN 0 ELSE resp.json.additions)
                    /\ lines_deleted' = lines_deleted +
                         (IF resp.json.stats = Absent THEN 0 ELSE resp.json.deletions)
    /\ UNCHANGED <<inputs, page, all_repos, ri, pulls, pj, commits, reviews,
                   pull_requests_reviewed, valid_comments, repo_contributions,
                   pulls_log>>

\* lines 116-130: the review-list fetch and the review loop
FetchReviews(ReviewLists) ==
    /\ pc = "reviews"
    /\ IF pulls[pj].review_comments_url = <<>>
       THEN /\ Raise("AttributeError") /\ NoGet
            /\ UNCHANGED <<pj, reviews, pull_requests_reviewed, valid_comments>>
       ELSE \E resp \in Responses(ReviewLists) :
            /\ Get(ReplaceComments(pulls[pj].review_comments_url)[
                       Len(pulls[pj].review_comments_url)], ri, resp)
            /\ IF ~resp.ok
               THEN /\ Goto("pulls") /\ pj' = pj + 1
                    /\ UNCHANGED <<reviews, pull_requests_reviewed, valid_comments>>
               ELSE LET c == CountReviews(resp.json, username,
                                 <<pull_requests_reviewed, valid_comments>>) IN
                    /\ reviews' = resp.json
                    /\ pull_requests_reviewed' = c.reviewed
                    /\ valid_comments' = c.valid
                    /\ IF c.raised
                       THEN Raise("AttributeError") /\ UNCHANGED pj
                       ELSE Goto("pulls") /\ pj' = pj + 1
    /\ UNCHANGED <<inputs, page, all_repos, ri, pulls, commits, ck, lines_added,
                   lines_deleted, repo_contributions, pulls_log>>

\* lines 132-156: the ranking, the user-profile lookup and the result
Finalize(UserInfos) ==
    /\ pc = "finalize"
    /\ \E resp \in Responses(UserInfos) :
        /\ Get("user", 0, resp)
        /\ pc' = "returned" /\ outcome' = "Result"
        /\ results' = [
             user_name |-> IF ~resp.ok THEN username
                           ELSE IF resp.json.name = Absent THEN username
                           ELSE resp.json.name,
             pull_requests_reviewed |-> pull_requests_reviewed,
             valid_comments |-> valid_comments,
             lines_added |-> lines_added,
             lines_deleted |-> lines_deleted,
             lines_modified |-> lines_added + lines_deleted,
             top_repositories |-> TopRepos(repo_contributions),
             start_date |-> start_date,
             end_date |-> end_date]
    /\ UNCHANGED <<inputs, page, all_repos, loops, counters, repo_contributions,
                   pulls_log, raised>>

\* ------------------------------------------------------- the API's answers
Repo(n) == [full_name |-> n]
Pull(t, u, url, cs) ==
    [created_at |-> t, user |-> u, review_comments_url |-> url, comments_url |-> cs]
Review(u, b) == [user |-> u, body |-> b]
Stats(s, a, d) == [stats |-> s, additions |-> a, deletions |-> d]

ReviewCommentsUrl == <<"pulls", "comments">>
Body10 == "0123456789"
Body11 == "0123456789a"

Credentials == {<<Me, "token">>, <<"", "token">>, <<Me, "">>}
NoWindow == <<<<>>, <<>>>>
UserInfos == {[name |-> "Display Name"], [name |-> Null], [name |-> Absent]}

\* Spec: the walk over the pull requests of one or two repositories, with and
\* without a date window
WalkWindows == {NoWindow, <<<<2>>, <<2>>>>}
WalkPages == {<<Repo("a")>>, <<Repo("a"), Repo("b")>>}
WalkPulls ==
    { Pull(<<2, 0>>, Me, ReviewCommentsUrl, <<>>),
      Pull(<<2, 0>>, Other, ReviewCommentsUrl, <<Review(Me, Body11)>>),
      Pull(<<1, 0>>, Me, ReviewCommentsUrl, <<>>) }
WalkCommits == {<<>>, <<"c1">>}
WalkDetails == {Stats("present", 10, 2)}
WalkReviews == {<<>>, <<Review(Me, Body11)>>}

Init == InitWith(Credentials, WalkWindows)

Next ==
    \/ CheckInputs
    \/ ListRepos(WalkPages, 1)
    \/ NextRepo(SeqsUpTo(WalkPulls, MaxPulls))
    \/ NextPull(WalkCommits)
    \/ NextCommit(WalkDetails)
    \/ FetchReviews(WalkReviews)
    \/ Finalize({[name |-> "Display Name"]})

Spec == Init /\ [][Next]_vars

\* SpecEnum: the enumeration over several pages, repositories listed in an
\* order that is not alphabetical and listed twice, and the ranking
EnumPages == {<<Repo("b"), Repo("a")>>, <<Repo("c"), Repo("d")>>, <<Repo("a")>>}
EnumPull == Pull(<<2, 0>>, Me, ReviewCommentsUrl, <<>>)
EnumPulls == {<<>>, <<EnumPull>>, <<EnumPull, EnumPull>>}

InitEnum == InitWith({<<Me, "token">>}, {NoWindow})

NextEnum ==
    \/ CheckInputs
    \/ ListRepos(EnumPages, MaxPages)
    \/ NextRepo(EnumPulls)
    \/ NextPull({<<>>})
    \/ NextCommit(WalkDetails)
    \/ FetchReviews({<<>>})
    \/ Finalize({[name |-> "Display Name"]})

SpecEnum == InitEnum /\ [][NextEnum]_vars

\* SpecPull: one repository; pull requests of every creation time against
\* every date window, responses of an unexpected shape, and reviews of every
\* author and body
PullWindows == {NoWindow, <<<<2>>, <<>>>>, <<<<>>, <<2>>>>, <<<<2>>, <<2>>>>}
PullPages == {<<Repo("a")>>, <<Repo(Absent)>>}
PullShapes ==
    {Pull(<<d, t>>, Me, ReviewCommentsUrl, <<>>) : d \in {1, 2, 3}, t \in {0, 43200}}
    \cup { Pull(<<>>, Me, ReviewCommentsUrl, <<>>),
           Pull(<<2, 0>>, Null, ReviewCommentsUrl, <<>>),
           Pull(<<2, 0>>, Absent, ReviewCommentsUrl, <<>>),
           Pull(<<2, 0>>, Other, <<>>, <<>>) }
PullLists ==
    {<<p>> : p \in PullShapes}
    \cup SeqsUpTo({Pull(<<2, 0>>, Me, ReviewCommentsUrl, <<>>),
                   Pull(<<2, 0>>, Other, ReviewCommentsUrl, <<>>)}, 2)
PullDetails == WalkDetails \cup {Stats(Absent, 0, 0), Stats(Null, 0, 0)}
PullReviews ==
    {Review(Me, Body10), Review(Me, Body11), Review(Me, Null), Review(Me, ""),
     Review(Other, Body11), Review(Null, Body11)}

InitPull == InitWith({<<Me, "token">>}, PullWindows)

NextPullSpec ==
    \/ CheckInputs
    \/ ListRepos(PullPages, 1)
    \/ NextRepo(PullLists)
    \/ NextPull(WalkCommits)
    \/ NextCommit(PullDetails)
    \/ FetchReviews(SeqsUpTo(PullReviews, MaxReviews))
    \/ Finalize(UserInfos)

SpecPull == InitPull /\ [][NextPullSpec]_vars

\* ------------------------------------------------------------------ claims
\* the tally of repository n, 0 while it has no entry
Tally(d, n) == IF HasKey(d, n) THEN Lookup(d, n) ELSE 0

\* number of entries of the list rs written by login n / with a valid body too
NumBy(rs, n) == Cardinality({i \in 1..Len(rs) : rs[i].user = n})
NumValidBy(rs, n) ==
    Cardinality({i \in 1..Len(rs) :
        rs[i].user = n /\ rs[i].body \notin {Null, ""} /\ Len(rs[i].body) >= 11})

\* positions of all_repos that name the repository n
Occurrences(n) == {i \in 1..Len(all_repos) : all_repos[i].full_name = n}

\* C1: when the commit-list fetch of an in-window pull request of the target
\* user fails, the run goes on to the review list of the same pull request
C1_ReviewsAfterCommitsFailure ==
    [][(pc = "pulls" /\ last'.kind = "commits" /\ ~last'.ok)
         => (pc' = "reviews" /\ pj' = pj /\ ri' = ri)]_vars

\* C3: processing an in-window pull request adds to valid_comments one for each
\* valid review and one for each valid issue comment of the target user, and to
\* pull_requests_reviewed one for each of its reviews only
C3_IssueCommentsCounted ==
    [][(pc = "reviews" /\ last'.kind = "reviews" /\ last'.ok /\ outcome' = "running")
         => /\ valid_comments' = valid_comments + NumValidBy(reviews', username)
                                   + NumValidBy(pulls[pj].comments_url, username)
            /\ pull_requests_reviewed' =
                   pull_requests_reviewed + NumBy(reviews', username)]_vars

\* C5: a failed pull-list fetch for repository R changes no counter, leaves R
\* with tally 0 as an empty pull list does, issues no commit, commit-detail or
\* review request for R, goes on to the next repository and never makes the run
\* end without a result
C5_Skipped(i) ==
    \A k \in {"commits", "commit", "reviews"} : <<k, i>> \notin issued
C5_SameAsEmpty ==
    /\ counters' = counters
    /\ outcome' = "running"
    /\ Tally(repo_contributions', all_repos[ri].full_name) = 0
    /\ \A n \in Keys(repo_contributions) \ {all_repos[ri].full_name} :
           Tally(repo_contributions', n) = Tally(repo_contributions, n)
C5_FailedPullsSkipRepository ==
    /\ [](\A i \in 1..Len(pulls_log) :
            (~pulls_log[i].ok \/ pulls_log[i].json = <<>>)
                => C5_Skipped(i) /\ outcome # "None")
    /\ [][/\ (pc = "repos" /\ last'.kind = "pulls" /\ ~last'.ok)
             => (C5_SameAsEmpty /\ pc' = "repos" /\ ri' = ri + 1)
          /\ (pc = "repos" /\ last'.kind = "pulls" /\ last'.ok /\ pulls' = <<>>)
             => (C5_SameAsEmpty /\ pc' = "pulls" /\ ri' = ri)
          /\ (pc = "pulls" /\ pulls = <<>>)
             => (counters' = counters /\ repo_contributions' = repo_contributions
                 /\ outcome' = "running" /\ pc' = "repos" /\ ri' = ri + 1)]_vars

C5_Witness ==
    /\ outcome = "Result"
    /\ Len(pulls_log) = 2 /\ ~pulls_log[1].ok /\ pulls_log[2].ok
    /\ results.lines_added > 0 /\ results.top_repositories = <<<<"b", 1>>, <<"a", 0>>>>

\* C10: in a result, a repository listed once has as its tally the number of
\* its pull requests that pass the date filter and are written by the target
\* user when its pull list was fetched, and 0 when that fetch failed, whatever
\* the commit, commit-detail and review fetches did
C10_Authored(i) ==
    {j \in 1..Len(pulls_log[i].json) :
        /\ ~OutOfRange(pulls_log[i].json[j].created_at, start_date, end_date)
        /\ pulls_log[i].json[j].user = username}
C10_TallyCountsAuthoredPulls ==
    outcome = "Result" =>
        \A i \in 1..Len(all_repos) :
            Occurrences(all_repos[i].full_name) = {i} =>
                Tally(repo_contributions, all_repos[i].full_name) =
                    IF pulls_log[i].ok THEN Cardinality(C10_Authored(i)) ELSE 0

C10_Witness ==
    /\ outcome = "Result"
    /\ Len(all_repos) = 2
    /\ Tally(repo_contributions, "a") = 2 /\ Tally(repo_contributions, "b") = 1
    /\ Len(pulls_log[2].json) = 2
    /\ <<"commits", 1>> \in issued /\ <<"commit", 1>> \notin issued
    /\ <<"reviews", 2>> \notin issued

\* C6: a failed fetch of any page of the enumeration ends the run at once with
\* no result; a run that ended so has issued no request but page requests and
\* has processed no repository
C6_EnumerationFailureIsFatal ==
    /\ [][(last'.kind = "repos" /\ ~last'.ok)
            => (pc' = "returned" /\ outcome' = "None")]_vars
    /\ [][pc # "returned"]_vars
    /\ [](outcome = "None" =>
            /\ \A q \in issued : q[1] = "repos"
            /\ repo_contributions = <<>> /\ pulls_log = <<>>
            /\ counters = <<0, 0, 0, 0>>)
    /\ []((last.kind = "repos" /\ ~last.ok) => outcome = "None")

C6_Witness ==
    /\ outcome = "None" /\ last.kind = "repos" /\ ~last.ok
    /\ page = 2 /\ Len(all_repos) = 2

\* C7: in a result top_repositories holds min(3, number of distinct
\* repositories) entries, each a repository with its tally, in descending order
\* of tally, repositories of equal tally in the order of their first listing,
\* and no repository left out has a larger tally than one listed
FirstSeen(n) == CHOOSE i \in Occurrences(n) : \A j \in Occurrences(n) : i <= j
C7_TopRepositories ==
    outcome = "Result" =>
        LET t == results.top_repositories
            names == {all_repos[i].full_name : i \in 1..Len(all_repos)}
            listed == {t[i][1] : i \in 1..Len(t)}
        IN  /\ Len(t) = MinOf(3, Cardinality(names))
            /\ Cardinality(listed) = Len(t)
            /\ \A i \in 1..Len(t) :
                   t[i][1] \in names /\ t[i][2] = Tally(repo_contributions, t[i][1])
            /\ \A i, j \in 1..Len(t) :
                   i < j => \/ t[i][2] > t[j][2]
                            \/ /\ t[i][2] = t[j][2]
                               /\ FirstSeen(t[i][1]) < FirstSeen(t[j][1])
            /\ \A n \in names \ listed : \A i \in 1..Len(t) :
                   Tally(repo_contributions, n) <= t[i][2]

C7_Witness ==
    /\ outcome = "Result"
    /\ Len(all_repos) = 4
    /\ results.top_repositories = <<<<"c", 2>>, <<"b", 1>>, <<"a", 1>>>>
    /\ Tally(repo_contributions, "d") = 1

\* C8: no step of a run lowers a counter or the tally of a repository
C8_NeverDecremented ==
    [][/\ pull_requests_reviewed' >= pull_requests_reviewed
       /\ valid_comments' >= valid_comments
       /\ lines_added' >= lines_added
       /\ lines_deleted' >= lines_deleted
       /\ \A n \in Keys(repo_contributions) :
              Tally(repo_contributions', n) >= Tally(repo_contributions, n)]_vars

\* C2: a pull request of the target user adds to the tally of its repository
\* exactly when the calendar date of its creation lies between the start date
\* and the end date, both included, a missing bound not limiting
C2_InWindow(day) ==
    /\ (start_date = <<>> \/ start_date[1] <= day)
    /\ (end_date = <<>> \/ day <= end_date[1])
C2_WindowIsInclusive ==
    [][(/\ pc = "pulls" /\ pj <= Len(pulls)
        /\ pulls[pj].created_at # <<>> /\ pulls[pj].user = username)
         => ((Tally(repo_contributions', all_repos[ri].full_name)
                = Tally(repo_contributions, all_repos[ri].full_name) + 1)
             <=> C2_InWindow(pulls[pj].created_at[1]))]_vars

\* C4: a run ends with a result or with the no-result value, never with an
\* exception
C4_NoExceptionEscapes == pc = "returned" => outcome \in {"Result", "None"}

\* C9: a fetched review list adds to pull_requests_reviewed one for each review
\* of the target user that the loop reaches, whatever its body, and to
\* valid_comments one for each of those whose body is present, not empty and
\* at least 11 characters long
C9_Reached(rs) ==
    LET bad == {i \in 1..Len(rs) : rs[i].user = Null}
    IN  IF bad = {} THEN rs
        ELSE SubSeq(rs, 1, (CHOOSE i \in bad : \A j \in bad : i <= j) - 1)
C9_ReviewThreshold ==
    [][(pc = "reviews" /\ last'.kind = "reviews" /\ last'.ok)
         => /\ pull_requests_reviewed' =
                   pull_requests_reviewed + NumBy(C9_Reached(reviews'), username)
            /\ valid_comments' =
                   valid_comments + NumValidBy(C9_Reached(reviews'), username)
            /\ (outcome' = "running" <=> C9_Reached(reviews') = reviews')]_vars

C9_Witness ==
    /\ pc = "pulls" /\ pj = 3 /\ last.kind = "reviews" /\ last.ok
    /\ reviews = <<Review(Me, Body10), Review(Me, Body11)>>
    /\ pull_requests_reviewed = 3 /\ valid_comments = 1

====
